---- MODULE Spec2Model ----
(***************************************************************************)
(* A model of the persistence layer of the song-recognition service:      *)
(* DbClient (package utils) over a MongoDB database "song-recognition"    *)
(* with the collections "fingerprints" and "songs".                       *)
(*                                                                         *)
(* The database is the shared state. Every client call is a frame of one  *)
(* of the concurrent client processes; each round trip to the database is *)
(* one atomic step (MongoDB applies a single-document operation           *)
(* atomically), and the Go code between two round trips is local to the   *)
(* process, so it is part of the step that follows it.                    *)
(*                                                                         *)
(* Package wav (WriteWavFile, ReadWavInfo, WavBytesToSamples) is modelled *)
(* beside it, over a file system of its own.                              *)
(***************************************************************************)
EXTENDS Integers, Sequences, FiniteSets, TLC

VARIABLES
    fingerprints,   \* collection "fingerprints": _id (address) -> document
    songs,          \* collection "songs": _id (songID) -> document
    songsIndexes,   \* the unique indexes of "songs": a set of sets of field names
    issued,         \* the identifiers GenerateUniqueID has handed out
    frame,          \* frame[p]: the call process p is in, with its locals and result
    appendLog,      \* history: per address, the couples pushed since the last drop
    files,          \* the file system: filename -> the file's bytes, or NoFile
    wavFrame,       \* the call of package wav in progress, with its arguments and result
    lastEncode      \* history: per filename, the arguments of the WriteWavFile call
                    \* that wrote the file as it is now, or NoEncode

wavVars == <<files, wavFrame, lastEncode>>
vars == <<fingerprints, songs, songsIndexes, issued, frame, appendLog,
          files, wavFrame, lastEncode>>

(***************************************************************************)
(* Bounds of the model.                                                    *)
(***************************************************************************)
MaxStored == 2         \* couples the fingerprint collection may hold before calls stop appending
UintBits == 5          \* width the 32-bit unsigned fields are scaled to

Procs == {"p1", "p2"}
Addresses == {1, 2}

(***************************************************************************)
(* models.Couple values handed to StoreFingerprints.                      *)
(***************************************************************************)
Couples ==
    { [anchorTimeMs |-> 1, songID |-> 1], [anchorTimeMs |-> 2, songID |-> 2] }

(***************************************************************************)
(* BSON values as the driver decodes them into bson.M: a type tag and a   *)
(* payload.                                                                *)
(***************************************************************************)
Int64(n) == [t |-> "int64", v |-> n]
Str(s) == [t |-> "string", v |-> s]
Arr(items) == [t |-> "array", v |-> items]
Doc(fields) == [t |-> "doc", v |-> fields]
Missing == [t |-> "missing", v |-> 0]

\* uint32(x) of an integer x, at the scaled width
Uint32(n) == n % (2 ^ UintBits)

EmptyCollection == [id \in {} |-> Missing]

(***************************************************************************)
(* Errors. An error value is the message of the fmt.Errorf that built it, *)
(* the addresses its format arguments name, and the error it wraps.       *)
(***************************************************************************)
NilErr == [msg |-> "nil", addresses |-> {}, cause |-> "nil"]
Errorf(msg, addresses, cause) == [msg |-> msg, addresses |-> addresses, cause |-> cause]

Idle == [op |-> "idle", pc |-> "idle"]

(***************************************************************************)
(* StoreFingerprints                                                       *)
(***************************************************************************)
\* the element of the "$push" update: bson.M{"anchorTimeMs": ..., "songID": ...};
\* the driver encodes a uint32 as a BSON int64
PushElement(couple) ==
    Doc([anchorTimeMs |-> Int64(couple.anchorTimeMs), songID |-> Int64(couple.songID)])

\* collection.UpdateOne(filter {_id: address}, {"$push": {"couples": item}}, upsert):
\* one atomic single-document update. The result is the error and the collection.
UpdateOnePushLost(coll, address, item) ==
    [err |-> "nil",
     coll |-> [id \in DOMAIN coll \cup {address} |->
                 IF id = address THEN [couples |-> Arr(<<item>>)] ELSE coll[id]]]

UpdateOnePushFront(coll, address, item) ==
    IF address \notin DOMAIN coll
    THEN [err |-> "nil", coll |-> coll @@ (address :> [couples |-> Arr(<<item>>)])]
    ELSE [err |-> "nil",
          coll |-> [coll EXCEPT ![address].couples = Arr(<<item>> \o @.v)]]

UpdateOnePushOverLast(coll, address, item) ==
    IF address \notin DOMAIN coll
    THEN [err |-> "nil", coll |-> coll @@ (address :> [couples |-> Arr(<<item>>)])]
    ELSE [err |-> "nil",
          coll |-> [coll EXCEPT ![address].couples =
                      Arr(SubSeq(@.v, 1, Len(@.v) - 1) \o <<item>>)]]

UpdateOnePush(coll, address, item) ==
    IF address \notin DOMAIN coll
    THEN [err |-> "nil", coll |-> coll @@ (address :> [couples |-> Arr(<<item>>)])]
    ELSE IF coll[address].couples.t = "missing"
    THEN [err |-> "nil", coll |-> [coll EXCEPT ![address].couples = Arr(<<item>>)]]
    ELSE IF coll[address].couples.t # "array"
    THEN [err |-> "WriteError", coll |-> coll]
    ELSE [err |-> "nil",
          coll |-> [coll EXCEPT ![address].couples = Arr(Append(@.v, item))]]

\* the fingerprint maps a caller passes: map[uint32]models.Couple
FingerprintMaps ==
    UNION { [D -> Couples] : D \in SUBSET Addresses }

RECURSIVE SumOver(_, _)
SumOver(f, S) ==
    IF S = {} THEN 0
    ELSE LET x == CHOOSE y \in S : TRUE IN f[x] + SumOver(f, S \ {x})

\* the couples stored, and the pushes the running calls have yet to make
Stored ==
    SumOver([a \in DOMAIN fingerprints |->
               IF fingerprints[a].couples.t = "array"
               THEN Len(fingerprints[a].couples.v) ELSE 0],
            DOMAIN fingerprints)

PendingPushes ==
    SumOver([q \in Procs |->
               IF frame[q].op = "StoreFingerprints" /\ frame[q].pc = "loop"
               THEN Cardinality(frame[q].todo) ELSE 0],
            Procs)

\* the other processes that are inside the loop of StoreFingerprints
Running(p) ==
    {q \in Procs \ {p} : frame[q].op = "StoreFingerprints" /\ frame[q].pc = "loop"}

\* entry of StoreFingerprints (lines 55-56); dropped and overlapped are history:
\* whether the collection was dropped since the call began, and whether another
\* StoreFingerprints call was in its loop while this one was
CallStoreFingerprints(p, m) ==
    /\ frame[p] = Idle
    /\ UNCHANGED wavVars
    /\ Stored + PendingPushes + Cardinality(DOMAIN m) <= MaxStored
    /\ frame' = [q \in Procs |->
                  IF q = p
                  THEN
                    [op |-> "StoreFingerprints",
                     pc |-> IF DOMAIN m = {} THEN "done" ELSE "loop",
                     fingerprints |-> m,
                     todo |-> DOMAIN m,
                     failedAt |-> {},
                     err |-> NilErr,
                     dropped |-> FALSE,
                     overlapped |-> DOMAIN m # {} /\ Running(p) # {}]
                  ELSE IF q \in Running(p) /\ DOMAIN m # {}
                  THEN [frame[q] EXCEPT !.overlapped = TRUE]
                  ELSE frame[q]]
    /\ UNCHANGED <<fingerprints, songs, songsIndexes, issued, appendLog>>

\* one iteration of the range loop (lines 58-74): Go visits the keys of the map
\* in an unspecified order; up is whether the database answers
StoreUpdateOne(p, address, up) ==
    /\ frame[p].op = "StoreFingerprints"
    /\ UNCHANGED wavVars
    /\ frame[p].pc = "loop"
    /\ address \in frame[p].todo
    /\ LET couple == frame[p].fingerprints[address]
           r == IF up THEN UpdateOnePush(fingerprints, address, PushElement(couple))
                      ELSE [err |-> "Transport", coll |-> fingerprints]
           rest == frame[p].todo \ {address}
       IN  /\ fingerprints' = r.coll
           /\ appendLog' = IF r.err = "nil"
                           THEN [appendLog EXCEPT ![address] = Append(@, couple)]
                           ELSE appendLog
           /\ frame' = [frame EXCEPT ![p] =
                 IF r.err # "nil"
                 THEN [@ EXCEPT !.pc = "done",
                                !.failedAt = {address},
                                !.err = Errorf("error upserting document", {}, r.err)]
                 ELSE [@ EXCEPT !.pc = IF rest = {} THEN "done" ELSE "loop",
                                !.todo = rest]]
    /\ UNCHANGED <<songs, songsIndexes, issued>>

(***************************************************************************)
(* GetCouples                                                              *)
(***************************************************************************)
EmptyMap == [a \in {} |-> <<>>]

\* lines 108-111: the type assertions .(int64) and the conversions to uint32
DecodeCouple(item) ==
    [anchorTimeMs |-> Uint32(item.v.anchorTimeMs.v), songID |-> Uint32(item.v.songID.v)]

\* what the loop body of lines 102-113 does with one element of the array
ItemOutcome(item) ==
    IF item.t # "doc" THEN "error"
    ELSE IF item.v.anchorTimeMs.t # "int64" THEN "panic"
    ELSE IF item.v.songID.t # "int64" THEN "panic"
    ELSE "ok"

\* lines 95-114 on a found document: "ok" with the couples, "error" or "panic"
DecodeBucket(doc) ==
    IF doc.couples.t # "array"
    THEN [kind |-> "error", msg |-> "couples field in document is not valid", couples |-> <<>>]
    ELSE LET items == doc.couples.v
             bad == {i \in 1..Len(items) : ItemOutcome(items[i]) # "ok"}
             first == CHOOSE i \in bad : \A j \in bad : i <= j
         IN  IF bad = {}
             THEN [kind |-> "ok", msg |-> "nil",
                   couples |-> [i \in 1..Len(items) |-> DecodeCouple(items[i])]]
             ELSE IF ItemOutcome(items[first]) = "error"
             THEN [kind |-> "error", msg |-> "invalid couple format in document",
                   couples |-> <<>>]
             ELSE [kind |-> "panic", msg |-> "interface conversion", couples |-> <<>>]

\* the address lists a caller passes
AddressLists ==
    { <<>>, <<1>>, <<2>>, <<1, 2>>, <<1, 1>> }

\* entry of GetCouples (lines 79-82)
CallGetCouples(p, addresses) ==
    /\ frame[p] = Idle
    /\ UNCHANGED wavVars
    /\ frame' = [frame EXCEPT ![p] =
                    [op |-> "GetCouples",
                     pc |-> IF Len(addresses) = 0 THEN "done" ELSE "loop",
                     addresses |-> addresses,
                     i |-> 1,
                     couples |-> EmptyMap,
                     err |-> NilErr]]
    /\ UNCHANGED <<fingerprints, songs, songsIndexes, issued, appendLog>>

\* "continue" (line 90): the loop goes on to the next address, or ends and
\* line 117 returns the map
Advance(f) ==
    [f EXCEPT !.i = @ + 1,
              !.pc = IF f.i = Len(f.addresses) THEN "done" ELSE "loop"]

\* lines 88-91: FindOne found no document for the address
NoDocumentsAsEntry(f) ==
    [Advance(f) EXCEPT !.couples =
        [a \in DOMAIN @ \cup {f.addresses[f.i]} |->
           IF a = f.addresses[f.i] THEN <<>> ELSE @[a]]]

NoDocuments(f) == Advance(f)

\* "return nil, fmt.Errorf(...)" (lines 92, 99, 105)
ReturnErr(f, err) ==
    [f EXCEPT !.pc = "done", !.couples = EmptyMap, !.err = err]

\* line 114: couples[address] = docCouples
SetCouplesTorn(f, docCouples) ==
    [Advance(f) EXCEPT !.couples =
        [a \in DOMAIN @ \cup {f.addresses[f.i]} |->
           IF a = f.addresses[f.i]
           THEN SubSeq(docCouples, 1, Len(docCouples) - 1) ELSE @[a]]]

SetCouples(f, docCouples) ==
    [Advance(f) EXCEPT !.couples =
        [a \in DOMAIN @ \cup {f.addresses[f.i]} |->
           IF a = f.addresses[f.i] THEN docCouples ELSE @[a]]]

\* one iteration of the loop of lines 84-115: FindOne and the decoding of its result
GetCouplesFindOne(p, up) ==
    /\ frame[p].op = "GetCouples"
    /\ UNCHANGED wavVars
    /\ frame[p].pc = "loop"
    /\ LET f == frame[p]
           address == f.addresses[f.i]
       IN  frame' = [frame EXCEPT ![p] =
             IF ~up
             THEN ReturnErr(f, Errorf("error retrieving document for address",
                                      {address}, "Transport"))
             ELSE IF address \notin DOMAIN fingerprints
             THEN NoDocuments(f)
             ELSE LET d == DecodeBucket(fingerprints[address])
                  IN  IF d.kind = "panic"
                      THEN [f EXCEPT !.pc = "panic", !.couples = EmptyMap]
                      ELSE IF d.kind = "error"
                      THEN ReturnErr(f, Errorf(d.msg, {address}, "nil"))
                      ELSE SetCouples(f, d.couples)]
    /\ UNCHANGED <<fingerprints, songs, songsIndexes, issued, appendLog>>

(***************************************************************************)
(* Strings are sequences of characters, so that strings.Contains and      *)
(* strings.Split are computed as Go computes them.                        *)
(***************************************************************************)
\* strings.Contains(s, substr)
Contains(s, substr) ==
    \E i \in 0..(Len(s) - Len(substr)) : SubSeq(s, i + 1, i + Len(substr)) = substr

\* strings.Split(s, sep) for a non-empty sep: the substrings between the
\* occurrences of sep, found from the left
RECURSIVE Split(_, _)
Split(s, sep) ==
    LET at == {i \in 0..(Len(s) - Len(sep)) : SubSeq(s, i + 1, i + Len(sep)) = sep}
    IN  IF at = {}
        THEN <<s>>
        ELSE LET i == CHOOSE j \in at : \A k \in at : j <= k
             IN  <<SubSeq(s, 1, i)>> \o Split(SubSeq(s, i + Len(sep) + 1, Len(s)), sep)

\* the separator of lines 185-186
Separator == <<"-", "-", "-">>

\* const FILTER_KEYS = "_id | ytID | key"
FILTER_KEYS ==
    <<"_", "i", "d", " ", "|", " ", "y", "t", "I", "D", " ", "|", " ", "k", "e", "y">>

(***************************************************************************)
(* RegisterSong                                                            *)
(***************************************************************************)
MaxSongID == 3         \* identifiers GenerateUniqueID can hand out

SongIDs == 1..MaxSongID
Titles == { <<"a">>, <<"b">> }
Artists == { <<"x">> }
YtIDs == { <<"y">>, <<"z">> }

\* utils.GenerateUniqueID(): an identifier not handed out before; the allocator
\* hands them out in increasing order
GenerateUniqueID(handedOut) ==
    CHOOSE id \in SongIDs \ handedOut : \A other \in SongIDs \ handedOut : id <= other

\* utils.GenerateSongKey(songTitle, songArtist)
GenerateSongKey(songTitle, songArtist) == songTitle \o Separator \o songArtist

\* the keys of the index of lines 134-137
UniqueIndexKeys == {"ytID", "key"}

\* Indexes().CreateOne of a unique index: the build fails when two documents
\* of the collection already agree on the keys
CreateOneNotUnique(coll, indexes, keys) ==
    [err |-> "nil", indexes |-> indexes]

CreateOneUnique(coll, indexes, keys) ==
    IF \E a \in DOMAIN coll : \E b \in DOMAIN coll \ {a} :
          \A k \in keys : coll[a][k] = coll[b][k]
    THEN [err |-> "DuplicateKey", indexes |-> indexes]
    ELSE [err |-> "nil", indexes |-> indexes \cup {keys}]

\* whether inserting doc breaks one of the unique indexes
UniqueViolationAnyField(coll, indexes, doc) ==
    \E ix \in indexes : \E id \in DOMAIN coll : \E k \in ix : coll[id][k] = doc[k]

UniqueViolation(coll, indexes, doc) ==
    \E ix \in indexes : \E id \in DOMAIN coll : \A k \in ix : coll[id][k] = doc[k]

\* collection.InsertOne({_id: id, ...doc}): _id is unique in every collection
InsertOneUnchecked(coll, indexes, id, doc) ==
    IF id \in DOMAIN coll
    THEN [err |-> "DuplicateKey", coll |-> coll]
    ELSE [err |-> "nil", coll |-> coll @@ (id :> doc)]

InsertOne(coll, indexes, id, doc) ==
    IF id \in DOMAIN coll \/ UniqueViolation(coll, indexes, doc)
    THEN [err |-> "DuplicateKey", coll |-> coll]
    ELSE [err |-> "nil", coll |-> coll @@ (id :> doc)]

\* the RegisterSong calls that hold or may yet draw an identifier
Registering ==
    {q \in Procs : frame[q].op = "RegisterSong" /\ frame[q].pc = "insert"}

\* lines 130-141: the entry of RegisterSong and the creation of the index
RegisterSongCreateIndex(p, songTitle, songArtist, ytID, up) ==
    /\ frame[p] = Idle
    /\ UNCHANGED wavVars
    /\ Cardinality(issued) + Cardinality(Registering) < MaxSongID
    /\ LET r == IF up THEN CreateOneUnique(songs, songsIndexes, UniqueIndexKeys)
                      ELSE [err |-> "Transport", indexes |-> songsIndexes]
       IN  /\ songsIndexes' = r.indexes
           /\ frame' = [frame EXCEPT ![p] =
                 [op |-> "RegisterSong",
                  pc |-> IF r.err = "nil" THEN "insert" ELSE "done",
                  songTitle |-> songTitle, songArtist |-> songArtist, ytID |-> ytID,
                  songID |-> 0,
                  raced |-> FALSE,
                  err |-> IF r.err = "nil" THEN NilErr
                          ELSE Errorf("failed to create unique index", {}, r.err)]]
    /\ UNCHANGED <<fingerprints, songs, issued, appendLog>>

\* lines 143-155: the identifier, the key and InsertOne. raced is history:
\* another RegisterSong call is between its two round trips.
RegisterSongInsert(p, up) ==
    /\ frame[p].op = "RegisterSong"
    /\ UNCHANGED wavVars
    /\ frame[p].pc = "insert"
    /\ SongIDs \ issued # {}
    /\ issued' = issued \cup {GenerateUniqueID(issued)}
    /\ LET songID == GenerateUniqueID(issued)
           key == GenerateSongKey(frame[p].songTitle, frame[p].songArtist)
           doc == [key |-> Str(key), ytID |-> Str(frame[p].ytID)]
           r == IF up THEN InsertOne(songs, songsIndexes, songID, doc)
                      ELSE [err |-> "Transport", coll |-> songs]
       IN  /\ songs' = r.coll
           /\ frame' = [frame EXCEPT ![p] =
                 [@ EXCEPT !.pc = "done",
                           !.raced = Registering \ {p} # {},
                           !.songID = IF r.err = "nil" THEN songID ELSE 0,
                           !.err = IF r.err = "nil" THEN NilErr
                                   ELSE IF r.err = "DuplicateKey"
                                   THEN Errorf("song with ytID or key already exists",
                                               {}, r.err)
                                   ELSE Errorf("failed to register song", {}, r.err)]]
    /\ UNCHANGED <<fingerprints, songsIndexes, appendLog>>

(***************************************************************************)
(* GetSong                                                                 *)
(***************************************************************************)
NoSong == [Title |-> <<>>, Artist |-> <<>>, YouTubeID |-> <<>>]

\* the documents FindOne(bson.M{filterKey: value}) matches
Matching(coll, filterKey, value) ==
    {id \in DOMAIN coll :
        IF filterKey = <<"_", "i", "d">> THEN Int64(id) = value
        ELSE IF filterKey = <<"y", "t", "I", "D">> THEN coll[id].ytID = value
        ELSE IF filterKey = <<"k", "e", "y">> THEN coll[id].key = value
        ELSE FALSE}

\* lines 184-190 on the document found: the Song, or a panic of a type
\* assertion or of the index [1]
DecodeSong(doc) ==
    IF doc.ytID.t # "string" \/ doc.key.t # "string"
    THEN [kind |-> "panic", song |-> NoSong]
    ELSE LET parts == Split(doc.key.v, Separator)
         IN  IF Len(parts) < 2
             THEN [kind |-> "panic", song |-> NoSong]
             ELSE [kind |-> "ok",
                   song |-> [Title |-> parts[1], Artist |-> parts[2],
                             YouTubeID |-> doc.ytID.v]]

\* the check of line 167
FilterKeyAllowed(filterKey) == Contains(FILTER_KEYS, filterKey)

\* GetSong (lines 166-191): one FindOne. looked is history: whether the call
\* ran FindOne. found is the document FindOne returns when several match.
GetSong(p, filterKey, value, found, up) ==
    /\ frame[p] = Idle
    /\ UNCHANGED wavVars
    /\ LET base == [op |-> "GetSong", pc |-> "done", filterKey |-> filterKey,
                    value |-> value, looked |-> FALSE, song |-> NoSong,
                    songExists |-> FALSE, err |-> NilErr]
           matching == Matching(songs, filterKey, value)
       IN  /\ found \in matching \/ (matching = {} /\ found = 0)
           /\ frame' = [frame EXCEPT ![p] =
                 IF ~FilterKeyAllowed(filterKey)
                 THEN [base EXCEPT !.err = Errorf("invalid filter key", {}, "nil")]
                 ELSE IF ~up
                 THEN [base EXCEPT !.looked = TRUE,
                          !.err = Errorf("failed to retrieve song", {}, "Transport")]
                 ELSE IF matching = {}
                 THEN [base EXCEPT !.looked = TRUE]
                 ELSE LET d == DecodeSong(songs[found])
                      IN  IF d.kind = "panic"
                          THEN [base EXCEPT !.looked = TRUE, !.pc = "panic"]
                          ELSE [base EXCEPT !.looked = TRUE, !.song = d.song,
                                            !.songExists = TRUE]]
    /\ UNCHANGED <<fingerprints, songs, songsIndexes, issued, appendLog>>

GetSongByID(p, songID, found, up) ==
    GetSong(p, <<"_", "i", "d">>, Int64(songID), found, up)

GetSongByYTID(p, ytID, found, up) ==
    GetSong(p, <<"y", "t", "I", "D">>, Str(ytID), found, up)

GetSongByKey(p, key, found, up) ==
    GetSong(p, <<"k", "e", "y">>, Str(key), found, up)

\* field names a caller of the exported GetSong may pass besides the three above
OtherFilterKeys ==
    { <<>>, <<"i", "d">>, <<" ", "|", " ">>, <<"t", "i", "t", "l", "e">> }

(***************************************************************************)
(* DeleteSongByID and TotalSongs                                           *)
(***************************************************************************)
\* collection.DeleteOne({_id: songID}): removes the document, if there is one
DeleteOneOrOlder(coll, songID) ==
    [id \in {x \in DOMAIN coll : x > songID} |-> coll[id]]

DeleteOne(coll, songID) ==
    [id \in DOMAIN coll \ {songID} |-> coll[id]]

\* lines 205-216
DeleteSongByID(p, songID, up) ==
    /\ frame[p] = Idle
    /\ UNCHANGED wavVars
    /\ songs' = IF up THEN DeleteOne(songs, songID) ELSE songs
    /\ frame' = [frame EXCEPT ![p] =
          [op |-> "DeleteSongByID", pc |-> "done", songID |-> songID,
           err |-> IF up THEN NilErr
                   ELSE Errorf("failed to delete song", {}, "Transport")]]
    /\ UNCHANGED <<fingerprints, songsIndexes, issued, appendLog>>

\* lines 120-128: CountDocuments
TotalSongs(p, up) ==
    /\ frame[p] = Idle
    /\ UNCHANGED wavVars
    /\ frame' = [frame EXCEPT ![p] =
          [op |-> "TotalSongs", pc |-> "done",
           total |-> IF up THEN Cardinality(DOMAIN songs) ELSE 0,
           err |-> IF up THEN NilErr ELSE Errorf("", {}, "Transport")]]
    /\ UNCHANGED <<fingerprints, songs, songsIndexes, issued, appendLog>>

(***************************************************************************)
(* DeleteCollection                                                        *)
(***************************************************************************)
\* collection.Drop (lines 218-225): one round trip; a drop removes the documents
\* of the collection and its indexes
\* db.Collection(collectionName).Drop on the collection called name
DropEvery(coll, name, collectionName) == EmptyCollection

Drop(coll, name, collectionName) ==
    IF name = collectionName THEN EmptyCollection ELSE coll

DeleteCollection(p, collectionName, up) ==
    /\ frame[p] = Idle
    /\ UNCHANGED wavVars
    /\ fingerprints' = IF up THEN Drop(fingerprints, "fingerprints", collectionName)
                       ELSE fingerprints
    /\ songs' = IF up THEN Drop(songs, "songs", collectionName) ELSE songs
    /\ songsIndexes' = IF up /\ collectionName = "songs" THEN {} ELSE songsIndexes
    /\ appendLog' = IF up /\ collectionName = "fingerprints"
                    THEN [a \in Addresses |-> <<>>] ELSE appendLog
    /\ frame' = [q \in Procs |->
                   IF q = p
                   THEN [op |-> "DeleteCollection", pc |-> "done",
                         collectionName |-> collectionName,
                         err |-> IF up THEN NilErr
                                 ELSE Errorf("error deleting collection", {}, "Transport")]
                   ELSE IF up /\ collectionName = "fingerprints"
                           /\ frame[q].op = "StoreFingerprints"
                   THEN [frame[q] EXCEPT !.dropped = TRUE]
                   ELSE frame[q]]
    /\ UNCHANGED issued

\* the call returns to its caller
Return(p) ==
    /\ frame[p].pc = "done"
    /\ UNCHANGED wavVars
    /\ frame' = [frame EXCEPT ![p] = Idle]
    /\ UNCHANGED <<fingerprints, songs, songsIndexes, issued, appendLog>>

(***************************************************************************)
(* Package wav: WriteWavFile, ReadWavInfo and WavBytesToSamples. A byte   *)
(* is an integer in 0..255, a file is a sequence of bytes. The calls of   *)
(* this package run one at a time.                                        *)
(***************************************************************************)
dbVars == <<fingerprints, songs, songsIndexes, issued, frame, appendLog>>

MaxData == 2           \* longest payload handed to WriteWavFile
MaxInput == 4          \* longest input handed to WavBytesToSamples
HeaderSize == 44       \* the size of WavHeader in bytes
PCM == 1               \* AudioFormat of linear PCM
SampleScale == 32768   \* the divisor of WavBytesToSamples

Filenames == {"out.wav"}
DataBytes == {0, 255}
Payloads == UNION {[1..n -> DataBytes] : n \in 0..MaxData}
SampleRates == {0, 1}
ChannelCounts == {-1, 0, 1, 2, 65537}
BitDepths == {0, 8, 16}
SampleBytes == {0, 127, 128, 255}
SampleInputs == UNION {[1..n -> SampleBytes] : n \in 0..MaxInput}

\* what can go wrong outside the program during WriteWavFile: os.Create,
\* binary.Write of the header, f.Write of the data
Faults == {"none", "create", "header", "data"}

NoFile == [exists |-> FALSE, bytes |-> <<>>]
File(bytes) == [exists |-> TRUE, bytes |-> bytes]
NoEncode == [written |-> FALSE]
IdleWav == [op |-> "idle"]
NoError == "nil"

\* uint16(x) of an integer x
Uint16(n) == n % (2 ^ 16)

\* binary.LittleEndian: the bytes of a 16-bit and of a 32-bit unsigned value
PutUint16(n) == <<n % 256, (n \div 256) % 256>>
PutUint32(n) ==
    <<n % 256, (n \div 256) % 256, (n \div 65536) % 256, (n \div 16777216) % 256>>

\* binary.LittleEndian: the value of two and of four bytes
GetUint16(b) == b[1] + 256 * b[2]
GetUint32(b) == b[1] + 256 * b[2] + 65536 * b[3] + 16777216 * b[4]

RIFF == <<82, 73, 70, 70>>
WAVE == <<87, 65, 86, 69>>
FmtID == <<102, 109, 116, 32>>
DataID == <<100, 97, 116, 97>>

\* lines 36-57: the header writeWavHeader builds
WavHeader(data, sampleRate, channels, bitsPerSample) ==
    LET bytesPerSample == bitsPerSample \div 8 IN
    [ChunkID |-> RIFF,
     ChunkSize |-> Uint32(36 + Len(data)),
     Format |-> WAVE,
     Subchunk1ID |-> FmtID,
     Subchunk1Size |-> Uint32(16),
     AudioFormat |-> Uint16(PCM),
     NumChannels |-> Uint16(channels),
     SampleRate |-> Uint32(sampleRate),
     BytesPerSec |-> Uint32(sampleRate * channels * bytesPerSample),
     BlockAlign |-> Uint16(channels * bytesPerSample),
     BitsPerSample |-> Uint16(bitsPerSample),
     Subchunk2ID |-> DataID,
     Subchunk2Size |-> Uint32(Len(data))]

\* binary.Write(f, binary.LittleEndian, header): the fields in the order of the
\* struct (lines 14-28)
HeaderBytes(h) ==
    h.ChunkID \o PutUint32(h.ChunkSize) \o h.Format \o h.Subchunk1ID
    \o PutUint32(h.Subchunk1Size) \o PutUint16(h.AudioFormat)
    \o PutUint16(h.NumChannels) \o PutUint32(h.SampleRate)
    \o PutUint32(h.BytesPerSec) \o PutUint16(h.BlockAlign)
    \o PutUint16(h.BitsPerSample) \o h.Subchunk2ID \o PutUint32(h.Subchunk2Size)

\* binary.Read(data[:44], binary.LittleEndian, &header)
ParseHeader(b) ==
    [ChunkID |-> SubSeq(b, 1, 4),
     ChunkSize |-> GetUint32(SubSeq(b, 5, 8)),
     Format |-> SubSeq(b, 9, 12),
     Subchunk1ID |-> SubSeq(b, 13, 16),
     Subchunk1Size |-> GetUint32(SubSeq(b, 17, 20)),
     AudioFormat |-> GetUint16(SubSeq(b, 21, 22)),
     NumChannels |-> GetUint16(SubSeq(b, 23, 24)),
     SampleRate |-> GetUint32(SubSeq(b, 25, 28)),
     BytesPerSec |-> GetUint32(SubSeq(b, 29, 32)),
     BlockAlign |-> GetUint16(SubSeq(b, 33, 34)),
     BitsPerSample |-> GetUint16(SubSeq(b, 35, 36)),
     Subchunk2ID |-> SubSeq(b, 37, 40),
     Subchunk2Size |-> GetUint32(SubSeq(b, 41, 44))]

\* lines 30-62: the error and the bytes written to f; called with channels > 0
writeWavHeader(data, sampleRate, channels, bitsPerSample, fault) ==
    IF Len(data) % channels # 0
    THEN [err |-> "data size not divisible by channels", written |-> <<>>]
    ELSE IF fault = "header"
    THEN [err |-> "write failed", written |-> <<>>]
    ELSE [err |-> NoError,
          written |-> HeaderBytes(WavHeader(data, sampleRate, channels, bitsPerSample))]

\* lines 64-85: the error WriteWavFile returns and the file it leaves, old being
\* the file before the call
WriteWavFileOutcome(old, data, sampleRate, channels, bitsPerSample, fault) ==
    IF fault = "create"
    THEN [err |-> "create failed", file |-> old]
    ELSE IF sampleRate <= 0 \/ channels <= 0 \/ bitsPerSample <= 0
    THEN [err |-> "values must be greater than zero", file |-> File(<<>>)]
    ELSE LET h == writeWavHeader(data, sampleRate, channels, bitsPerSample, fault) IN
         IF h.err # NoError
         THEN [err |-> h.err, file |-> File(h.written)]
         ELSE IF fault = "data"
         THEN [err |-> "write failed", file |-> File(h.written)]
         ELSE [err |-> NoError, file |-> File(h.written \o data)]

WriteWavFile(filename, data, sampleRate, channels, bitsPerSample, fault) ==
    /\ wavFrame = IdleWav
    /\ LET args == [data |-> data, sampleRate |-> sampleRate, channels |-> channels,
                    bitsPerSample |-> bitsPerSample]
           out == WriteWavFileOutcome(files[filename], data, sampleRate, channels,
                                      bitsPerSample, fault)
       IN  /\ files' = [files EXCEPT ![filename] = out.file]
           /\ lastEncode' = [lastEncode EXCEPT ![filename] =
                 IF out.err = NoError THEN [written |-> TRUE] @@ args
                 ELSE IF fault = "create" THEN @
                 ELSE NoEncode]
           /\ wavFrame' = [op |-> "WriteWavFile", filename |-> filename, args |-> args,
                           err |-> out.err]
    /\ UNCHANGED dbVars

NoInfo == [Channels |-> 0, SampleRate |-> 0, Data |-> <<>>,
           Duration |-> [num |-> 0, den |-> 1]]

\* lines 95-131: the WavInfo and the error ReadWavInfo returns for a file.
\* Duration is the quotient of two float64 values, kept as the pair of them
\* (a zero divisor gives an infinity or a NaN, and no panic).
ReadWavInfoOutcome(file) ==
    IF ~file.exists
    THEN [info |-> NoInfo, err |-> "read failed"]
    ELSE IF Len(file.bytes) < HeaderSize
    THEN [info |-> NoInfo, err |-> "invalid WAV file size (too small)"]
    ELSE LET header == ParseHeader(SubSeq(file.bytes, 1, HeaderSize))
             data == SubSeq(file.bytes, HeaderSize + 1, Len(file.bytes))
         IN  IF header.ChunkID # RIFF \/ header.Format # WAVE \/ header.AudioFormat # PCM
             THEN [info |-> NoInfo, err |-> "invalid WAV header format"]
             ELSE IF header.BitsPerSample = 16
             THEN [info |-> [Channels |-> header.NumChannels,
                             SampleRate |-> header.SampleRate,
                             Data |-> data,
                             Duration |-> [num |-> Len(data),
                                           den |-> header.NumChannels * 2 * header.SampleRate]],
                   err |-> NoError]
             ELSE [info |-> NoInfo, err |-> "unsupported bits per sample format"]

ReadWavInfo(filename) ==
    /\ wavFrame = IdleWav
    /\ LET out == ReadWavInfoOutcome(files[filename]) IN
       wavFrame' = [op |-> "ReadWavInfo", filename |-> filename,
                    info |-> out.info, err |-> out.err]
    /\ UNCHANGED <<files, lastEncode>>
    /\ UNCHANGED dbVars

\* int16(x) of a 16-bit unsigned x
Int16Unsigned(u) == u

Int16(u) == IF u >= 32768 THEN u - 65536 ELSE u

\* float64(sample) / 32768.0: the quotient is exact in float64 for every
\* 16-bit sample, and is kept as its numerator over its denominator
Scale(sample) == [num |-> sample, den |-> SampleScale]

\* lines 134-151
WavBytesToSamplesOutcome(input) ==
    IF Len(input) % 2 # 0
    THEN [output |-> <<>>, err |-> "invalid input length"]
    ELSE [output |-> [k \in 1..(Len(input) \div 2) |->
                         Scale(Int16(GetUint16(SubSeq(input, 2 * k - 1, 2 * k))))],
          err |-> NoError]

WavBytesToSamples(input) ==
    /\ wavFrame = IdleWav
    /\ LET out == WavBytesToSamplesOutcome(input) IN
       wavFrame' = [op |-> "WavBytesToSamples", input |-> input,
                    output |-> out.output, err |-> out.err]
    /\ UNCHANGED <<files, lastEncode>>
    /\ UNCHANGED dbVars

\* the call returns to its caller
ReturnWav ==
    /\ wavFrame # IdleWav
    /\ wavFrame' = IdleWav
    /\ UNCHANGED <<files, lastEncode>>
    /\ UNCHANGED dbVars

\* no file, no call of package wav
InitNoFiles ==
    /\ files = [f \in Filenames |-> NoFile]
    /\ wavFrame = IdleWav
    /\ lastEncode = [f \in Filenames |-> NoEncode]

(***************************************************************************)
(* The fingerprint index: StoreFingerprints, GetCouples and the drop of   *)
(* the fingerprint collection, from an empty database.                    *)
(***************************************************************************)
Init ==
    /\ fingerprints = EmptyCollection
    /\ songs = EmptyCollection
    /\ songsIndexes = {}
    /\ issued = {}
    /\ frame = [p \in Procs |-> Idle]
    /\ appendLog = [a \in Addresses |-> <<>>]
    /\ InitNoFiles

NextIndex ==
    \/ \E p \in Procs, m \in FingerprintMaps : CallStoreFingerprints(p, m)
    \/ \E p \in Procs, a \in Addresses, up \in BOOLEAN : StoreUpdateOne(p, a, up)
    \/ \E p \in Procs, l \in AddressLists : CallGetCouples(p, l)
    \/ \E p \in Procs, up \in BOOLEAN : GetCouplesFindOne(p, up)
    \/ \E p \in Procs, up \in BOOLEAN : DeleteCollection(p, "fingerprints", up)
    \/ \E p \in Procs : Return(p)

SpecIndex == Init /\ [][NextIndex]_vars

(***************************************************************************)
(* The song registry, from an empty database: the operations that write   *)
(* it, with TotalSongs.                                                    *)
(***************************************************************************)
NextRegistry ==
    \/ \E p \in Procs, t \in Titles, a \in Artists, y \in YtIDs, up \in BOOLEAN :
          RegisterSongCreateIndex(p, t, a, y, up)
    \/ \E p \in Procs, up \in BOOLEAN : RegisterSongInsert(p, up)
    \/ \E p \in Procs, id \in SongIDs, up \in BOOLEAN : DeleteSongByID(p, id, up)
    \/ \E p \in Procs, up \in BOOLEAN : TotalSongs(p, up)
    \/ \E p \in Procs : Return(p)

SpecRegistry == Init /\ [][NextRegistry]_vars

(***************************************************************************)
(* The lookups of the song registry, over the records RegisterSong wrote. *)
(***************************************************************************)
NextLookup ==
    \/ \E p \in Procs, t \in Titles, a \in Artists, y \in YtIDs, up \in BOOLEAN :
          RegisterSongCreateIndex(p, t, a, y, up)
    \/ \E p \in Procs, up \in BOOLEAN : RegisterSongInsert(p, up)
    \/ \E p \in Procs, id \in SongIDs, found \in {0} \cup SongIDs, up \in BOOLEAN :
          GetSongByID(p, id, found, up)
    \/ \E p \in Procs, y \in YtIDs, found \in {0} \cup SongIDs, up \in BOOLEAN :
          GetSongByYTID(p, y, found, up)
    \/ \E p \in Procs, t \in Titles, a \in Artists, found \in {0} \cup SongIDs,
          up \in BOOLEAN :
          GetSongByKey(p, GenerateSongKey(t, a), found, up)
    \/ \E p \in Procs, k \in OtherFilterKeys, found \in {0} \cup SongIDs,
          up \in BOOLEAN :
          GetSong(p, k, Str(<<"y">>), found, up)
    \/ \E p \in Procs : Return(p)

SpecLookup == Init /\ [][NextLookup]_vars

(***************************************************************************)
(* The fingerprint index and the song registry side by side, from an      *)
(* empty database: the operations of both, with one song to register.     *)
(***************************************************************************)
SomeMaps ==
    {m \in FingerprintMaps :
        DOMAIN m = {1} \/ (DOMAIN m = Addresses /\ \A a \in Addresses : m[a].songID = 1)}

NextDatabase ==
    \/ \E p \in Procs, m \in SomeMaps : CallStoreFingerprints(p, m)
    \/ \E p \in Procs, a \in Addresses : StoreUpdateOne(p, a, TRUE)
    \/ \E p \in Procs : CallGetCouples(p, <<1, 2>>)
    \/ \E p \in Procs : GetCouplesFindOne(p, TRUE)
    \/ \E p \in Procs : RegisterSongCreateIndex(p, <<"a">>, <<"x">>, <<"y">>, TRUE)
    \/ \E p \in Procs : RegisterSongInsert(p, TRUE)
    \/ \E p \in Procs, id \in SongIDs : DeleteSongByID(p, id, TRUE)
    \/ \E p \in Procs, name \in {"fingerprints", "songs"}, up \in BOOLEAN :
          DeleteCollection(p, name, up)
    \/ \E p \in Procs : Return(p)

SpecDatabase == Init /\ [][NextDatabase]_vars

(***************************************************************************)
(* RegisterSong and GetSongByID over titles and artists that may hold the  *)
(* text of the separator.                                                  *)
(***************************************************************************)
PlainTitles == { <<"a">> }
SeparatorArtists == { <<"x">>, <<"x", "-", "-", "-", "z">> }

NextSeparator ==
    \/ \E p \in Procs, t \in PlainTitles, a \in SeparatorArtists, up \in BOOLEAN :
          RegisterSongCreateIndex(p, t, a, <<"y">>, up)
    \/ \E p \in Procs, up \in BOOLEAN : RegisterSongInsert(p, up)
    \/ \E p \in Procs, id \in SongIDs, found \in {0} \cup SongIDs, up \in BOOLEAN :
          GetSongByID(p, id, found, up)
    \/ \E p \in Procs : Return(p)

SpecSeparator == Init /\ [][NextSeparator]_vars

(***************************************************************************)
(* The reads over a database that holds documents this program did not    *)
(* write: the collections are schemaless, and GetCouples and GetSong      *)
(* decode whatever document FindOne returns.                               *)
(***************************************************************************)
\* what a field of a stored couple may hold
StoredFields == { Int64(1), Str(<<"1">>), Missing }

WellFormedItem == PushElement([anchorTimeMs |-> 2, songID |-> 2])

\* what an element of a stored "couples" array may be
StoredItems ==
    {Doc([anchorTimeMs |-> x, songID |-> y]) : x \in StoredFields, y \in StoredFields}
        \cup {Int64(7)}

\* what the "couples" field of a stored document may hold
StoredCouples ==
    {Arr(<<>>)} \cup {Arr(<<i>>) : i \in StoredItems}
        \cup {Arr(<<WellFormedItem, i>>) : i \in StoredItems}
        \cup {Str(<<"1">>), Missing}

StoredFingerprints ==
    {(1 :> [couples |-> c]) : c \in StoredCouples}
        \cup {(1 :> [couples |-> c]) @@ (2 :> [couples |-> Arr(<<WellFormedItem>>)]) :
                c \in StoredCouples}

StoredSongs ==
    {(1 :> [key |-> k, ytID |-> y]) :
        k \in {Str(GenerateSongKey(<<"a">>, <<"x">>)), Str(<<"a">>), Int64(1), Missing},
        y \in {Str(<<"y">>), Int64(1), Missing}}

InitStored ==
    /\ \/ fingerprints \in StoredFingerprints /\ songs = EmptyCollection
       \/ fingerprints = EmptyCollection /\ songs \in StoredSongs
    /\ songsIndexes = {}
    /\ issued = {}
    /\ frame = [p \in Procs |-> Idle]
    /\ appendLog = [a \in Addresses |-> <<>>]
    /\ InitNoFiles

NextStored ==
    \/ \E p \in Procs, l \in AddressLists : CallGetCouples(p, l)
    \/ \E p \in Procs, up \in BOOLEAN : GetCouplesFindOne(p, up)
    \/ \E p \in Procs, id \in SongIDs, found \in {0} \cup SongIDs, up \in BOOLEAN :
          GetSongByID(p, id, found, up)
    \/ \E p \in Procs, y \in YtIDs, found \in {0} \cup SongIDs, up \in BOOLEAN :
          GetSongByYTID(p, y, found, up)
    \/ \E p \in Procs, t \in Titles, a \in Artists, found \in {0} \cup SongIDs,
          up \in BOOLEAN :
          GetSongByKey(p, GenerateSongKey(t, a), found, up)
    \/ \E p \in Procs : Return(p)

SpecStored == InitStored /\ [][NextStored]_vars

(***************************************************************************)
(* Package wav over a file that is absent or that some program wrote:     *)
(* well-formed containers, containers with another magic, format code or  *)
(* sample width, and files shorter than a header.                         *)
(***************************************************************************)
StoredHeaders ==
    { [WavHeader(<<>>, 1, 1, 16) EXCEPT
          !.ChunkID = id, !.Format = fmt, !.AudioFormat = af, !.BitsPerSample = bits] :
        id \in {RIFF, <<82, 73, 70, 88>>}, fmt \in {WAVE, <<65, 86, 73, 32>>},
        af \in {PCM, 3}, bits \in {8, 16} }

StoredPayloads == { <<>>, <<0>>, <<0, 255>> }

StoredFiles ==
    { File(HeaderBytes(h) \o d) : h \in StoredHeaders, d \in StoredPayloads }
    \cup { File(SubSeq(HeaderBytes(WavHeader(<<>>, 1, 1, 16)), 1, n)) : n \in {0, 43} }

InitWav ==
    /\ fingerprints = EmptyCollection
    /\ songs = EmptyCollection
    /\ songsIndexes = {}
    /\ issued = {}
    /\ frame = [p \in Procs |-> Idle]
    /\ appendLog = [a \in Addresses |-> <<>>]
    /\ files \in [Filenames -> {NoFile} \cup StoredFiles]
    /\ wavFrame = IdleWav
    /\ lastEncode = [f \in Filenames |-> NoEncode]

NextWav ==
    \/ \E f \in Filenames, d \in Payloads, sr \in SampleRates, ch \in ChannelCounts,
          bits \in BitDepths, fault \in Faults :
          WriteWavFile(f, d, sr, ch, bits, fault)
    \/ \E f \in Filenames : ReadWavInfo(f)
    \/ ReturnWav

SpecWav == InitWav /\ [][NextWav]_vars

(***************************************************************************)
(* WavBytesToSamples over every input of the bounded lengths.             *)
(***************************************************************************)
InitSamples == Init

NextSamples ==
    \/ \E input \in SampleInputs : WavBytesToSamples(input)
    \/ ReturnWav

SpecSamples == InitSamples /\ [][NextSamples]_vars

(***************************************************************************)
(* Properties of the fingerprint index.                                    *)
(***************************************************************************)
Range(seq) == {seq[i] : i \in 1..Len(seq)}

\* what a reader gets for the bucket of an address in the current state
BucketCouples(address) ==
    IF address \in DOMAIN fingerprints
    THEN DecodeBucket(fingerprints[address]).couples
    ELSE <<>>

StoreDone(p) ==
    frame[p].op = "StoreFingerprints" /\ frame[p].pc = "done"

\* process p takes an iteration of the loop of GetCouples in this step
GetCouplesStep(p) ==
    /\ frame[p].op = "GetCouples"
    /\ frame[p].pc = "loop"
    /\ frame'[p] # frame[p]

\* the address that iteration looks up
Looked(p) == frame[p].addresses[frame[p].i]

\* C1: two StoreFingerprints calls that append disjoint couples to the same
\* address, concurrently or not, lose no append: once both have completed
\* without error and the collection was not dropped meanwhile, the bucket of
\* the address holds the couple of each call; and a call fails only when the
\* database does not answer, never because of the other call's append.
C1_NoLostAppend ==
    /\ \A p \in Procs : \A q \in Procs \ {p} :
         ( /\ StoreDone(p) /\ StoreDone(q)
           /\ frame[p].err = NilErr /\ frame[q].err = NilErr
           /\ ~frame[p].dropped /\ ~frame[q].dropped )
         => \A a \in DOMAIN frame[p].fingerprints \cap DOMAIN frame[q].fingerprints :
              frame[p].fingerprints[a] # frame[q].fingerprints[a]
              => {frame[p].fingerprints[a], frame[q].fingerprints[a]}
                    \subseteq Range(BucketCouples(a))
    /\ \A p \in Procs :
         (StoreDone(p) /\ frame[p].err # NilErr) => frame[p].err.cause = "Transport"

\* two calls that ran concurrently have both completed, with different couples
\* for one address
C1_Witness ==
    \E p \in Procs : \E q \in Procs \ {p} :
        /\ StoreDone(p) /\ StoreDone(q)
        /\ frame[p].err = NilErr /\ frame[q].err = NilErr
        /\ ~frame[p].dropped /\ ~frame[q].dropped
        /\ frame[p].overlapped /\ frame[q].overlapped
        /\ \E a \in DOMAIN frame[p].fingerprints \cap DOMAIN frame[q].fingerprints :
              frame[p].fingerprints[a] # frame[q].fingerprints[a]

\* C2: whenever GetCouples reads an address that couples were appended to
\* (since the collection was last dropped), the address is in the result and
\* what is returned for it is exactly the sequence of the couples appended, in
\* the order of the appends and with duplicates kept.
C2_AppendOrder ==
    [][ \A p \in Procs :
          (GetCouplesStep(p) /\ frame'[p].pc # "panic" /\ frame'[p].err = NilErr)
          => (appendLog[Looked(p)] # <<>>
                => /\ Looked(p) \in DOMAIN frame'[p].couples
                   /\ frame'[p].couples[Looked(p)] = appendLog[Looked(p)]) ]_vars

\* a completed GetCouples returned two different couples for one address, in
\* the order two calls appended them
C2_Witness ==
    \E p \in Procs :
        /\ frame[p].op = "GetCouples" /\ frame[p].pc = "done" /\ frame[p].err = NilErr
        /\ \E a \in DOMAIN frame[p].couples :
              /\ Len(frame[p].couples[a]) = 2
              /\ frame[p].couples[a][1] # frame[p].couples[a][2]
              /\ frame[p].couples[a] = appendLog[a]

\* C7: when the database answers and the address looked up has no bucket, the
\* call goes on without error and the result is unchanged; when it has a bucket
\* and the call goes on, the address is added to the result; so the keys of a
\* result are requested addresses that had a bucket, and a call that met no
\* bucket returns the empty mapping without error.
C7_AbsentOmitted ==
    /\ [][ \A p \in Procs :
             (GetCouplesStep(p) /\ frame'[p].err.cause # "Transport")
             => IF Looked(p) \notin DOMAIN fingerprints
                THEN /\ frame'[p].couples = frame[p].couples
                     /\ frame'[p].err = NilErr
                     /\ frame'[p].pc \in {"loop", "done"}
                ELSE (frame'[p].err = NilErr /\ frame'[p].pc # "panic")
                     => DOMAIN frame'[p].couples
                          = DOMAIN frame[p].couples \cup {Looked(p)} ]_vars
    /\ [](\A p \in Procs :
             frame[p].op = "GetCouples"
             => DOMAIN frame[p].couples
                  \subseteq {frame[p].addresses[j] : j \in 1..(frame[p].i - 1)})

\* a GetCouples call that asked twice for an address nothing was written to
\* has completed with the empty mapping and no error, while another address
\* has a bucket
C7_Witness ==
    \E p \in Procs :
        /\ frame[p].op = "GetCouples" /\ frame[p].pc = "done" /\ frame[p].err = NilErr
        /\ frame[p].addresses = <<1, 1>>
        /\ frame[p].couples = EmptyMap
        /\ DOMAIN fingerprints = {2}

\* C8: a StoreFingerprints call that failed on one address names that address
\* in its error, left the remaining addresses unprocessed, and the addresses it
\* wrote before keep their couples (unless the collection was dropped since).
C8_FailureNamesAddress ==
    \A p \in Procs :
        (StoreDone(p) /\ frame[p].err # NilErr)
        => /\ frame[p].err.addresses = frame[p].failedAt
           /\ frame[p].failedAt \subseteq frame[p].todo
           /\ ~frame[p].dropped
                => \A a \in DOMAIN frame[p].fingerprints \ frame[p].todo :
                      frame[p].fingerprints[a] \in Range(BucketCouples(a))

(***************************************************************************)
(* Properties of the song registry.                                        *)
(***************************************************************************)
DuplicateSong == "song with ytID or key already exists"

\* the records that hold the externalRef and the identity key of p's call
PairRecords(p) ==
    {id \in DOMAIN songs :
        /\ songs[id].ytID = Str(frame[p].ytID)
        /\ songs[id].key = Str(GenerateSongKey(frame[p].songTitle, frame[p].songArtist))}

\* process p takes the InsertOne of RegisterSong in this step
InsertStep(p) ==
    /\ frame[p].op = "RegisterSong"
    /\ frame[p].pc = "insert"
    /\ frame'[p].pc = "done"

RegisterDone(p) == frame[p].op = "RegisterSong" /\ frame[p].pc = "done"

SameSong(p, q) ==
    /\ frame[p].songTitle = frame[q].songTitle
    /\ frame[p].songArtist = frame[q].songArtist
    /\ frame[p].ytID = frame[q].ytID

\* C3: a RegisterSong call whose insert finds a record with the same ytID and
\* key fails, with the duplicate-song error whenever the database answered, and
\* leaves the registry as it was, with exactly one record of that pair.
C3_DuplicateRejected ==
    [][ \A p \in Procs :
          (InsertStep(p) /\ PairRecords(p) # {})
          => /\ frame'[p].err # NilErr
             /\ frame'[p].err.cause # "Transport" => frame'[p].err.msg = DuplicateSong
             /\ songs' = songs
             /\ Cardinality(PairRecords(p)) = 1 ]_vars

\* a call registered a song and, after it, a second call with the same title,
\* artist and ytID failed with the duplicate-song error
C3_Witness ==
    \E p \in Procs : \E q \in Procs \ {p} :
        /\ RegisterDone(p) /\ RegisterDone(q) /\ SameSong(p, q)
        /\ ~frame[p].raced /\ ~frame[q].raced
        /\ frame[q].err = NilErr /\ frame[q].songID \in DOMAIN songs
        /\ frame[p].err.msg = DuplicateSong
        /\ Cardinality(PairRecords(p)) = 1

\* C4: in every state no two records of the registry hold the same ytID and
\* key, and no two RegisterSong calls for one pair both hold a record.
C4_PairUnique ==
    /\ \A a \in DOMAIN songs : \A b \in DOMAIN songs \ {a} :
          ~(songs[a].ytID = songs[b].ytID /\ songs[a].key = songs[b].key)
    /\ \A p \in Procs : \A q \in Procs \ {p} :
          ( /\ RegisterDone(p) /\ RegisterDone(q) /\ SameSong(p, q)
            /\ frame[p].err = NilErr /\ frame[q].err = NilErr )
          => ~({frame[p].songID, frame[q].songID} \subseteq DOMAIN songs)

\* two calls for the same song ran concurrently, both past the creation of the
\* index before either inserted: one succeeded, the other got the duplicate error
C4_Witness ==
    \E p \in Procs : \E q \in Procs \ {p} :
        /\ RegisterDone(p) /\ RegisterDone(q) /\ SameSong(p, q)
        /\ frame[q].raced
        /\ frame[q].err = NilErr /\ frame[q].songID \in DOMAIN songs
        /\ frame[p].err.msg = DuplicateSong

\* C5: a RegisterSong call whose insert finds no record with its ytID and key
\* does not fail with the duplicate-song error, and when the database answers
\* it succeeds: it adds exactly one record, under an identifier no other record has.
C5_NewPairSucceeds ==
    [][ \A p \in Procs :
          (InsertStep(p) /\ PairRecords(p) = {})
          => /\ frame'[p].err.msg # DuplicateSong
             /\ frame'[p].err.cause # "Transport"
                  => /\ frame'[p].err = NilErr
                     /\ frame'[p].songID \notin DOMAIN songs
                     /\ DOMAIN songs' = DOMAIN songs \cup {frame'[p].songID}
                     /\ \A id \in DOMAIN songs : songs'[id] = songs[id]
                     /\ songs'[frame'[p].songID].ytID = Str(frame[p].ytID) ]_vars

\* a call succeeded for a song that shares its ytID with another record and
\* differs from it in the key, and both records are in the registry
C5_Witness ==
    \E p \in Procs :
        /\ RegisterDone(p) /\ frame[p].err = NilErr
        /\ frame[p].songID \in DOMAIN songs
        /\ \E other \in DOMAIN songs \ {frame[p].songID} :
              /\ songs[other].ytID = songs[frame[p].songID].ytID
              /\ songs[other].key # songs[frame[p].songID].key

\* the allow-listed lookup fields: _id, ytID (externalRef), key (identityKey)
AllowListed == { <<"_", "i", "d">>, <<"y", "t", "I", "D">>, <<"k", "e", "y">> }

\* C6: GetSong runs FindOne only when the field name is exactly one of the
\* allow-listed fields, and for every other field name returns the
\* invalid-filter error.
C6_FailsClosed ==
    \A p \in Procs :
        frame[p].op = "GetSong"
        => /\ frame[p].looked => frame[p].filterKey \in AllowListed
           /\ frame[p].filterKey \notin AllowListed
                => frame[p].err.msg = "invalid filter key"

(***************************************************************************)
(* Properties of the reads over stored documents of any shape.            *)
(***************************************************************************)
\* the Couple schema: a list of documents with an integer anchorTimeMs and songID
ValidBucket(doc) ==
    /\ doc.couples.t = "array"
    /\ \A i \in 1..Len(doc.couples.v) :
          /\ doc.couples.v[i].t = "doc"
          /\ doc.couples.v[i].v.anchorTimeMs.t = "int64"
          /\ doc.couples.v[i].v.songID.t = "int64"

\* C9: GetCouples never terminates abnormally, and a call that completed, with
\* the database answering, over an address whose bucket violates the Couple
\* schema returned an error that names such an address, and no mapping.
C9_CorruptReported ==
    \A p \in Procs :
        frame[p].op = "GetCouples"
        => /\ frame[p].pc # "panic"
           /\ (frame[p].pc = "done" /\ frame[p].err.cause # "Transport")
                => LET bad == {a \in Range(frame[p].addresses) :
                                  /\ a \in DOMAIN fingerprints
                                  /\ ~ValidBucket(fingerprints[a])}
                   IN  bad # {}
                       => /\ frame[p].err # NilErr
                          /\ frame[p].err.addresses # {}
                          /\ frame[p].err.addresses \subseteq bad
                          /\ frame[p].couples = EmptyMap

\* C10: every song lookup ends in exactly one of: found with a record and no
\* error, not found with no error, or an error with found false; it never
\* terminates abnormally.
C10_ThreeOutcomes ==
    \A p \in Procs :
        frame[p].op = "GetSong"
        => /\ frame[p].pc = "done"
           /\ \/ frame[p].songExists /\ frame[p].err = NilErr
              \/ ~frame[p].songExists /\ frame[p].err = NilErr /\ frame[p].song = NoSong
              \/ ~frame[p].songExists /\ frame[p].err # NilErr /\ frame[p].song = NoSong

(***************************************************************************)
(* Properties of DeleteSongByID.                                           *)
(***************************************************************************)
\* process p runs DeleteSongByID in this step and the database answers
DeleteStep(p) ==
    /\ frame[p] = Idle
    /\ frame'[p].op = "DeleteSongByID"
    /\ frame'[p].err.cause # "Transport"

\* C11: DeleteSongByID returns no error whether or not the songID has a record;
\* without a record the registry is unchanged; with one, exactly that record is
\* removed and every other record is kept as it was; and deleting the same
\* songID once more from the resulting registry changes nothing.
C11_DeleteIdempotent ==
    [][ \A p \in Procs :
          DeleteStep(p)
          => /\ frame'[p].err = NilErr
             /\ frame'[p].songID \notin DOMAIN songs => songs' = songs
             /\ DOMAIN songs' = DOMAIN songs \ {frame'[p].songID}
             /\ \A id \in DOMAIN songs' : songs'[id] = songs[id]
             /\ DeleteOne(songs', frame'[p].songID) = songs'
             /\ songsIndexes' = songsIndexes ]_vars

\* a song was registered by one call and deleted by another, while another
\* record stays in the registry
C11_Witness ==
    \E p \in Procs : \E q \in Procs \ {p} :
        /\ frame[p].op = "DeleteSongByID" /\ frame[p].err = NilErr
        /\ RegisterDone(q) /\ frame[q].err = NilErr
        /\ frame[q].songID = frame[p].songID
        /\ frame[p].songID \notin DOMAIN songs
        /\ DOMAIN songs # {}

(***************************************************************************)
(* Properties of package wav.                                              *)
(***************************************************************************)
\* the errors of the file system, which no argument of the call causes
IOFailures == {"create failed", "write failed", "read failed"}

\* WriteWavFile runs in this step
WriteStep == wavFrame = IdleWav /\ wavFrame'.op = "WriteWavFile"

\* the arguments the encoder has to reject
InvalidArgs(a) ==
    \/ a.channels <= 0
    \/ a.sampleRate <= 0
    \/ a.bitsPerSample <= 0
    \/ a.channels > 0 /\ Len(a.data) % a.channels # 0

\* the arguments of the round trip: positive counts, 16 bits per sample and
\* a payload of whole sample frames
ValidArgs(a) ==
    /\ a.channels > 0
    /\ a.sampleRate > 0
    /\ a.bitsPerSample = 16
    /\ Len(a.data) % (a.channels * 2) = 0

\* C12: a WriteWavFile call with a channel count, sample rate or sample width
\* that is not positive, or with a payload whose length the channel count does
\* not divide, fails, and the destination file is as it was before the call:
\* not created, not truncated, not written.
C12_RejectedBeforeOutput ==
    [][ (WriteStep /\ InvalidArgs(wavFrame'.args))
        => /\ wavFrame'.err # NoError
           /\ files' = files ]_vars

\* C13: for valid arguments WriteWavFile succeeds unless the file system
\* fails, and ReadWavInfo of the file it wrote succeeds and returns the
\* channel count, the sample rate and the payload of the call, from a header
\* that holds 16 bits per sample.
C13_RoundTrip ==
    /\ (wavFrame.op = "WriteWavFile" /\ ValidArgs(wavFrame.args)
        /\ wavFrame.err \notin IOFailures)
       => wavFrame.err = NoError
    /\ \A f \in Filenames :
          (/\ wavFrame.op = "ReadWavInfo" /\ wavFrame.filename = f
           /\ lastEncode[f].written /\ ValidArgs(lastEncode[f]))
          => /\ wavFrame.err = NoError
             /\ wavFrame.info.Channels = lastEncode[f].channels
             /\ wavFrame.info.SampleRate = lastEncode[f].sampleRate
             /\ wavFrame.info.Data = lastEncode[f].data
             /\ GetUint16(SubSeq(files[f].bytes, 35, 36)) = lastEncode[f].bitsPerSample

\* C14: ReadWavInfo of a file shorter than 44 bytes fails as too small;
\* otherwise, of a file whose bytes 0..3 are not "RIFF" or whose bytes 8..11
\* are not "WAVE", it fails on the header; otherwise, of a file whose format
\* code at offset 20 is not 1, it fails on the header; otherwise it succeeds
\* with the bytes after the header as the payload, whatever the sample width.
C14_DecodeClassifies ==
    \A f \in Filenames :
        (wavFrame.op = "ReadWavInfo" /\ wavFrame.filename = f /\ files[f].exists)
        => LET b == files[f].bytes IN
           IF Len(b) < 44
           THEN wavFrame.err = "invalid WAV file size (too small)"
           ELSE IF SubSeq(b, 1, 4) # <<82, 73, 70, 70>> \/ SubSeq(b, 9, 12) # <<87, 65, 86, 69>>
           THEN wavFrame.err = "invalid WAV header format"
           ELSE IF b[21] + 256 * b[22] # 1
           THEN wavFrame.err = "invalid WAV header format"
           ELSE /\ wavFrame.err = NoError
                /\ wavFrame.info.Data = SubSeq(b, 45, Len(b))

\* C15: WavBytesToSamples fails on every input of odd length; on 2n bytes it
\* returns n samples, sample i being the signed 16-bit little-endian value of
\* bytes 2i and 2i+1 over 32768: 0x00 0x80 gives -1, 0xFF 0x7F gives
\* 32767/32768, and every sample is below 1.
C15_SampleScaling ==
    wavFrame.op = "WavBytesToSamples"
    => LET input == wavFrame.input
           n == Len(input) \div 2
       IN  IF Len(input) % 2 = 1
           THEN wavFrame.err = "invalid input length"
           ELSE /\ wavFrame.err = NoError
                /\ Len(wavFrame.output) = n
                /\ \A i \in 1..n :
                      LET lo == input[2 * i - 1]
                          hi == input[2 * i]
                          s == IF hi >= 128 THEN lo + 256 * hi - 65536 ELSE lo + 256 * hi
                          out == wavFrame.output[i]
                      IN  /\ out.den = 32768
                          /\ out.num = s
                          /\ out.num < out.den
                          /\ (lo = 0 /\ hi = 128) => out.num = -out.den
                          /\ (lo = 255 /\ hi = 127) => out.num = 32767

\* the four bytes 0x00 0x80 0xFF 0x7F were converted to the samples -1 and
\* 32767/32768
C15_Witness ==
    /\ wavFrame.op = "WavBytesToSamples"
    /\ wavFrame.input = <<0, 128, 255, 127>>
    /\ wavFrame.err = NoError
    /\ wavFrame.output = <<[num |-> -32768, den |-> 32768], [num |-> 32767, den |-> 32768]>>

\* C16: the payload of every successful WriteWavFile has a length that
\* channels * (bitsPerSample / 8) divides, and the payload every successful
\* ReadWavInfo returns has a length that Channels * 2 divides (the only
\* sample width it accepts is 16).
C16_PayloadAligned ==
    /\ (wavFrame.op = "WriteWavFile" /\ wavFrame.err = NoError)
       => LET a == wavFrame.args IN
          /\ a.channels * (a.bitsPerSample \div 8) > 0
          /\ Len(a.data) % (a.channels * (a.bitsPerSample \div 8)) = 0
    /\ (wavFrame.op = "ReadWavInfo" /\ wavFrame.err = NoError)
       => /\ wavFrame.info.Channels > 0
          /\ Len(wavFrame.info.Data) % (wavFrame.info.Channels * 2) = 0

(***************************************************************************)
(* Properties of the lookup of a registered song.                          *)
(***************************************************************************)
\* C17: a GetSongByID that found the record of a successful RegisterSong call
\* returns the title, the artist and the ytID of that call, also when the
\* artist holds the text of the separator.
C17_LookupReturnsRegistered ==
    \A p \in Procs : \A q \in Procs :
        (/\ RegisterDone(q) /\ frame[q].err = NilErr
         /\ frame[p].op = "GetSong"
         /\ frame[p].filterKey = <<"_", "i", "d">>
         /\ frame[p].value = Int64(frame[q].songID)
         /\ frame[p].songExists \/ frame[p].pc = "panic")
        => /\ frame[p].pc = "done"
           /\ frame[p].song = [Title |-> frame[q].songTitle,
                               Artist |-> frame[q].songArtist,
                               YouTubeID |-> frame[q].ytID]

(***************************************************************************)
(* Properties of the fingerprint collection as a whole.                    *)
(***************************************************************************)
IsPrefix(s, t) == Len(s) <= Len(t) /\ SubSeq(t, 1, Len(s)) = s

\* the stored array of an address
StoredArray(coll, address) == coll[address].couples.v

\* process p runs DeleteCollection on the fingerprint collection in this step
DropFingerprints(p) ==
    /\ frame[p] = Idle
    /\ frame'[p].op = "DeleteCollection"
    /\ frame'[p].collectionName = "fingerprints"

DropStep == \E p \in Procs : DropFingerprints(p)

\* C18: in every step that is not a drop of the fingerprint collection, every
\* bucket that exists stays, and its array before the step is a prefix of its
\* array after the step: no step of StoreFingerprints, GetCouples, RegisterSong
\* or DeleteSongByID removes, reorders or rewrites a stored couple.
C18_AppendOnly ==
    [][ ~DropStep
        => \A a \in DOMAIN fingerprints :
              /\ a \in DOMAIN fingerprints'
              /\ IsPrefix(StoredArray(fingerprints, a), StoredArray(fingerprints', a)) ]_vars

\* a bucket holds two different couples while a song is registered and a
\* GetCouples call has read the bucket
C18_Witness ==
    /\ 1 \in DOMAIN fingerprints
    /\ Len(StoredArray(fingerprints, 1)) = 2
    /\ StoredArray(fingerprints, 1)[1] # StoredArray(fingerprints, 1)[2]
    /\ DOMAIN songs # {}
    /\ \E p \in Procs :
          /\ frame[p].op = "GetCouples" /\ frame[p].pc = "done"
          /\ 1 \in DOMAIN frame[p].couples
          /\ Len(frame[p].couples[1]) = 1

C20_SnapshotPerAddress ==
    [][ \A p \in Procs :
          /\ (/\ GetCouplesStep(p)
              /\ frame'[p].pc # "panic" /\ frame'[p].err = NilErr
              /\ Looked(p) \in DOMAIN fingerprints)
             => LET a == Looked(p)
                    stored == StoredArray(fingerprints, a)
                    got == frame'[p].couples[a]
                IN  /\ Len(got) = Len(stored)
                    /\ \A k \in 1..Len(stored) : PushElement(got[k]) = stored[k]
                    /\ \A b \in DOMAIN frame[p].couples \ {a} :
                          frame'[p].couples[b] = frame[p].couples[b]
          /\ (frame[p].op = "GetCouples" /\ frame'[p].op = "GetCouples" /\ ~DropStep)
             => \A a \in DOMAIN frame[p].couples \cap DOMAIN frame'[p].couples :
                   IsPrefix(frame[p].couples[a], BucketCouples(a))
                   => IsPrefix(frame'[p].couples[a], BucketCouples(a)') ]_vars

\* a GetCouples call has read address 1 and is about to read address 2, and a
\* StoreFingerprints call has appended to address 1 since: the entry of
\* address 1 is a proper prefix of the bucket
C20_Witness ==
    \E p \in Procs : \E q \in Procs \ {p} :
        /\ frame[p].op = "GetCouples" /\ frame[p].pc = "loop"
        /\ frame[p].addresses = <<1, 2>> /\ frame[p].i = 2
        /\ 1 \in DOMAIN frame[p].couples
        /\ Len(frame[p].couples[1]) = 1
        /\ Len(BucketCouples(1)) = 2
        /\ IsPrefix(frame[p].couples[1], BucketCouples(1))
        /\ frame[q].op = "StoreFingerprints" /\ ~frame[q].dropped
        /\ 1 \in DOMAIN frame[q].fingerprints \ frame[q].todo

====
